---- MODULE Spec2Model ----
(***************************************************************************)
(* Model of src/app/rtc_s1.py: the burst orchestration of the RTC-S1       *)
(* workflow (run), the mosaic boundary accumulator                         *)
(* (_update_mosaic_boundaries) and the temporary/persistent file           *)
(* bookkeeping.                                                            *)
(*                                                                         *)
(* Six specifications are defined over the same variables:                 *)
(*   Spec            one call of run(cfg), stage by stage;                 *)
(*   SpecBoundaries  _update_mosaic_boundaries applied repeatedly to one   *)
(*                   accumulator, with geogrids drawn from a richer set;   *)
(*   SpecMask        the valid-sample table of one burst;                  *)
(*   SpecCorrections apply_slc_corrections on one sample;                  *)
(*   SpecParameters  _load_parameters and the unpacking of the enumerated  *)
(*                   run parameters;                                       *)
(*   SpecCleanup     the removal of the temporary files on an arbitrary    *)
(*                   list of paths.                                        *)
(***************************************************************************)
EXTENDS Integers, Sequences, FiniteSets, TLC

VARIABLES
    cfg,                  \* the run configuration (never changes during a run)
    pc,                   \* the stage run() is about to execute
    burst_index,          \* 0-based index of the burst being processed
    geogrid,              \* the current burst's geogrid (snapped)
    mosaic_geogrid_dict,  \* the mosaic accumulator (a Python dict)
    applied,              \* SpecBoundaries: the geogrids applied so far
    input_file_list,      \* per burst: the geocoder's input files
    temp_files_list,
    output_file_list,
    output_imagery_list,
    output_metadata_dict,
    radar_grid_file_dict,
    geocode_calls,        \* the calls of geo_obj.geocode, in order
    mosaic_calls,         \* the calls of weighted_mosaic, in order
    disk,                 \* the file paths that exist on disk
    created,              \* every file path the run has caused to be created
    cfg_geogrid,          \* cfg.geogrid, once the mosaic stage has read it
    correction_calls,     \* the calls of apply_slc_corrections, in order
    slc_args,             \* SpecCorrections: arguments of apply_slc_corrections
    corrected_image,      \* SpecCorrections: the sample it writes
    burst,                \* SpecMask: the burst's valid lines and samples
    valid_samples_sub_swath, \* SpecMask: the table handed to sub_swaths
    namespace,            \* SpecParameters: the run parameters being loaded
    radar_grid_calls      \* the calls of get_radar_grid, in order

vars == <<cfg, pc, burst_index, geogrid, mosaic_geogrid_dict, applied,
          input_file_list, temp_files_list, output_file_list,
          output_imagery_list, output_metadata_dict, radar_grid_file_dict,
          geocode_calls, mosaic_calls, disk, created, cfg_geogrid,
          correction_calls, slc_args, corrected_image, burst,
          valid_samples_sub_swath, namespace, radar_grid_calls>>

(***************************************************************************)
(* Bounds of the model.                                                    *)
(***************************************************************************)
MaxBursts == 3

MaxPols == 2

MaxUpdates == 3

(***************************************************************************)
(* Python helpers: dicts are functions whose DOMAIN is the set of keys.    *)
(***************************************************************************)
EmptyDict == <<>>

Put(d, k, v) == [x \in (DOMAIN d) \cup {k} |-> IF x = k THEN v ELSE d[x]]

Range(s) == {s[i] : i \in DOMAIN s}

\* floor(a / b) for b # 0
FloorDiv(a, b) == IF b > 0 THEN a \div b ELSE (0 - a) \div (0 - b)

\* ceil(a / b) for b # 0
CeilDiv(a, b) == 0 - FloorDiv(0 - a, b)

(***************************************************************************)
(* _update_mosaic_boundaries(mosaic_geogrid_dict, geogrid).  The dict is   *)
(* mutated statement by statement, so a failing assert leaves behind what  *)
(* the statements before it have written.  The result is the dict as the   *)
(* call leaves it and whether an AssertionError was raised.                *)
(***************************************************************************)
\* a fault of lines 44-46: x0 is overwritten by every burst
update_x0_overwrites(d, g) == Put(d, "x0", g.start_x)

\* lines 44-46
update_x0(d, g) ==
    IF "x0" \notin DOMAIN d \/ g.start_x < d["x0"]
    THEN Put(d, "x0", g.start_x) ELSE d

\* a fault of lines 47-49: the far x edge is narrowed (an intersection)
update_xf_narrows(d, g, xf) ==
    IF "xf" \notin DOMAIN d \/ xf < d["xf"] THEN Put(d, "xf", xf) ELSE d

\* lines 47-49
update_xf(d, g, xf) ==
    IF "xf" \notin DOMAIN d \/ xf > d["xf"] THEN Put(d, "xf", xf) ELSE d

\* a fault of lines 50-52: y0 accumulates the minimum start_y
update_y0_minimum(d, g) ==
    IF "y0" \notin DOMAIN d \/ g.start_y < d["y0"]
    THEN Put(d, "y0", g.start_y) ELSE d

\* lines 50-52
update_y0(d, g) ==
    IF "y0" \notin DOMAIN d \/ g.start_y > d["y0"]
    THEN Put(d, "y0", g.start_y) ELSE d

\* lines 53-55
update_yf(d, g, yf) ==
    IF "yf" \notin DOMAIN d \/ yf < d["yf"] THEN Put(d, "yf", yf) ELSE d

\* lines 56-59, 60-63, 64-67: the key is set by the first call
set_once(d, key, value) ==
    IF key \notin DOMAIN d THEN Put(d, key, value) ELSE d

\* a fault of lines 66-67: the EPSG code is not compared
epsg_assert_missing(d, g) == FALSE

\* lines 66-67: assert(mosaic_geogrid_dict['epsg'] == geogrid.epsg) fails
epsg_assert_fails(d, g) == "epsg" \in DOMAIN d /\ d["epsg"] # g.epsg

_update_mosaic_boundaries(d, g) ==
    LET xf == g.start_x + g.spacing_x * g.width
        yf == g.start_y + g.spacing_y * g.length
        d1 == update_x0(d, g)
        d2 == update_xf(d1, g, xf)
        d3 == update_y0(d2, g)
        d4 == update_yf(d3, g, yf)
        d5 == set_once(d4, "dx", g.spacing_x)
        d6 == set_once(d5, "dy", g.spacing_y)
        d7 == set_once(d6, "epsg", g.epsg)
    IN  IF "dx" \in DOMAIN d4 /\ d4["dx"] # g.spacing_x
        THEN [dict |-> d4, raised |-> TRUE]
        ELSE IF "dy" \in DOMAIN d5 /\ d5["dy"] # g.spacing_y
        THEN [dict |-> d5, raised |-> TRUE]
        ELSE IF epsg_assert_fails(d6, g)
        THEN [dict |-> d6, raised |-> TRUE]
        ELSE [dict |-> d7, raised |-> FALSE]

(***************************************************************************)
(* snap_coord(val, snap, round_func) of rtc.geogrid:                       *)
(* round_func(val / snap) * snap.                                          *)
(***************************************************************************)
snap_coord(val, snap, round_func) ==
    IF round_func = "floor" THEN FloorDiv(val, snap) * snap
    ELSE CeilDiv(val, snap) * snap

(***************************************************************************)
(* The run configuration and the values run() unpacks from it.             *)
(***************************************************************************)
OutputFormats == {"HDF5", "NETCDF", "GTiff", "ENVI"}

\* the flags of the auxiliary layers, in the order get_radar_grid creates them
AuxLayers ==
    << [flag |-> "save_incidence_angle",  ds |-> "incidenceAngle",
        name |-> "incidence_angle"],
       [flag |-> "save_local_inc_angle",  ds |-> "localIncidenceAngle",
        name |-> "local_incidence_angle"],
       [flag |-> "save_projection_angle", ds |-> "projectionAngle",
        name |-> "projection_angle"],
       [flag |-> "save_rtc_anf_psi",      ds |-> "areaNormalizationFactorPsi",
        name |-> "rtc_anf_psi"],
       [flag |-> "save_range_slope",      ds |-> "rangeSlope",
        name |-> "range_slope"],
       [flag |-> "save_dem",              ds |-> "interpolatedDem",
        name |-> "interpolated_dem"] >>

\* the combinations of auxiliary-layer flags the model enumerates
LayerChoices == { {}, {"save_incidence_angle", "save_dem"} }

PolNames == <<"VV", "VH", "HH", "HV">>

Configs ==
    [ output_format : OutputFormats,
      mosaic_bursts : BOOLEAN,
      apply_thermal_noise_correction : BOOLEAN,
      apply_absolute_radiometric_correction : BOOLEAN,
      save_nlooks : BOOLEAN,
      save_rtc_anf : BOOLEAN,
      save_layers : LayerChoices,
      n_bursts : 1..MaxBursts,
      n_pols : 1..MaxPols ]

\* cfg.geogrids[burst_id]: the geogrids a burst may come with (unsnapped);
\* the last one disagrees with the others in its EPSG code
CfgGeogrids ==
    { [start_x |-> 2, start_y |-> 104, spacing_x |-> 5, spacing_y |-> -5,
       width |-> 10, length |-> 10, epsg |-> 32610],
      [start_x |-> 43, start_y |-> 81, spacing_x |-> 5, spacing_y |-> -5,
       width |-> 10, length |-> 10, epsg |-> 32610],
      [start_x |-> 43, start_y |-> 81, spacing_x |-> 5, spacing_y |-> -5,
       width |-> 10, length |-> 10, epsg |-> 32611] }

\* cfg.geogrid: the geogrid of the whole product in the run configuration,
\* given with the per-burst geogrids and read by the mosaic stage only (lines
\* 568, 589, 601, 647); its value is drawn when that stage starts
CfgMosaicGeogrids ==
    { [start_x |-> 0, start_y |-> 100, spacing_x |-> 5, spacing_y |-> -5,
       width |-> 18, length |-> 14, epsg |-> 32610],
      [start_x |-> 0, start_y |-> 100, spacing_x |-> 5, spacing_y |-> -5,
       width |-> 10, length |-> 10, epsg |-> 32610] }

\* the element types the raw SLC VRT of a burst may have
SlcDataTypes == {"CFloat32", "CInt16"}

product_id == "rtc_product"

flag_apply_thermal_noise_correction == cfg.apply_thermal_noise_correction

flag_apply_abs_rad_correction == cfg.apply_absolute_radiometric_correction

flag_mosaic == cfg.mosaic_bursts

output_format == cfg.output_format

flag_hdf5 == output_format = "HDF5" \/ output_format = "NETCDF"

hdf5_file_extension == IF output_format = "NETCDF" THEN "nc" ELSE "h5"

output_raster_format == IF flag_hdf5 THEN "GTiff" ELSE output_format

extension == IF output_raster_format = "GTiff" THEN "tif" ELSE "bin"

flag_save_nlooks == cfg.save_nlooks

flag_save_rtc_anf == cfg.save_rtc_anf

flag_call_radar_grid ==
    \/ "save_incidence_angle" \in cfg.save_layers
    \/ "save_local_inc_angle" \in cfg.save_layers
    \/ "save_projection_angle" \in cfg.save_layers
    \/ "save_rtc_anf_psi" \in cfg.save_layers
    \/ "save_dem" \in cfg.save_layers
    \/ "save_range_slope" \in cfg.save_layers

\* a fault of lines 268-269: only the thermal noise correction is looked at
exponent_thermal_only ==
    IF flag_apply_thermal_noise_correction THEN 1 ELSE 2

exponent ==
    IF flag_apply_thermal_noise_correction \/ flag_apply_abs_rad_correction
    THEN 1 ELSE 2

n_bursts == cfg.n_bursts

\* cfg.bursts: burst ids are 1..n_bursts, every burst has the same polarizations
burst_id == burst_index + 1

pol_list == SubSeq(PolNames, 1, cfg.n_pols)

(***************************************************************************)
(* File paths: <<root, burst directory (0: none), file stem, extension>>.  *)
(***************************************************************************)
scratch_path == <<"scratch_path", 0>>

output_dir == <<"output_dir", 0>>

BurstDir(dir, b) == <<dir[1], b>>

File(dir, stem, ext) == <<dir[1], dir[2], stem, ext>>

output_dir_mosaic_raster == IF flag_hdf5 THEN scratch_path ELSE output_dir

\* a fault of lines 315-316: the number of bursts is not looked at
flag_bursts_files_are_temporary_any_mosaic == flag_hdf5 \/ flag_mosaic

\* a fault of lines 315-316: the container formats are forgotten
flag_bursts_files_are_temporary_mosaic_only ==
    flag_mosaic /\ ~(n_bursts = 1)

\* a fault of lines 315-316: mosaicking is forgotten
flag_bursts_files_are_temporary_container_only == flag_hdf5

\* lines 315-316
flag_bursts_files_are_temporary ==
    flag_hdf5 \/ (flag_mosaic /\ ~(n_bursts = 1))

burst_scratch_path == BurstDir(scratch_path, burst_id)

bursts_output_dir ==
    IF flag_bursts_files_are_temporary THEN burst_scratch_path
    ELSE BurstDir(output_dir, burst_id)

temp_slc_path(pol) == File(burst_scratch_path, <<"rslc", pol>>, "vrt")

temp_slc_corrected_path(pol) ==
    File(burst_scratch_path, <<"rslc", pol, "corrected">>, extension)

input_burst_filename(pol) ==
    IF flag_apply_thermal_noise_correction \/ flag_apply_abs_rad_correction
    THEN temp_slc_corrected_path(pol)
    ELSE temp_slc_path(pol)

temp_vrt_path == File(burst_scratch_path, <<"rslc">>, "vrt")

rdr_burst_raster ==
    IF Len(input_file_list) = 1 THEN input_file_list[1] ELSE temp_vrt_path

geo_burst_filename ==
    IF flag_bursts_files_are_temporary
    THEN File(burst_scratch_path, <<product_id>>, extension)
    ELSE File(BurstDir(output_dir, burst_id), <<product_id>>, extension)

nlooks_file == File(bursts_output_dir, <<product_id, "nlooks">>, extension)

rtc_anf_file == File(bursts_output_dir, <<product_id, "rtc_anf">>, extension)

(***************************************************************************)
(* _add_output_to_output_metadata_dict: output_metadata_dict[key] is the   *)
(* pair of the mosaic file of the layer and the list of per-burst files.   *)
(***************************************************************************)
_add_output_to_output_metadata_dict(flag, key, dir, dict) ==
    IF ~flag THEN dict
    ELSE Put(dict, key, [file   |-> File(dir, <<product_id, key>>, extension),
                         inputs |-> <<>>])

\* the keys of output_metadata_dict in insertion order
MetadataKeys(dict) ==
    SelectSeq(<<"nlooks", "rtc">>, LAMBDA k : k \in DOMAIN dict)

\* list(radar_grid_file_dict.values()); the dict is kept as its sequence of
\* <<key, value>> items, in insertion order
DictValues(items) == [i \in DOMAIN items |-> items[i][2]]

NoGeogrid ==
    [start_x |-> 0, start_y |-> 0, spacing_x |-> 0, spacing_y |-> 0,
     width |-> 0, length |-> 0, epsg |-> 0]

\* the values of the variables a specification does not use
NoArgs ==
    [arr_slc_from |-> <<0, 0>>, thermal_noise_lut |-> 0, beta_naught |-> 1,
     flag_output_complex |-> FALSE, flag_thermal_correction |-> FALSE,
     flag_apply_abs_rad_correction |-> FALSE]

NoImage == <<>>

NoBurst ==
    [first_valid_line |-> 0, last_valid_line |-> 0,
     first_valid_sample |-> 0, last_valid_sample |-> 0,
     length |-> 0, width |-> 0]

NoNamespace ==
    [memory_mode |-> "None", output_type |-> "None",
     input_terrain_radiometry |-> "None", dem_interpolation_method |-> "None",
     geocoding_algorithm_type |-> "None", rtc_algorithm_type |-> "None",
     dem_interpolation_method_enum |-> "unset", geocode_algorithm |-> "unset",
     rtc_algorithm |-> "unset"]

(***************************************************************************)
(* The state of run(cfg) when it enters the burst loop (line 303).         *)
(***************************************************************************)
Init ==
    /\ cfg \in Configs
    /\ pc = "SNAP_GEOGRID"
    /\ burst_index = 0
    /\ geogrid = NoGeogrid
    /\ mosaic_geogrid_dict = EmptyDict
    /\ applied = <<>>
    /\ input_file_list = <<>>
    /\ temp_files_list = <<>>
    /\ output_file_list = <<>>
    /\ output_imagery_list = <<>>
    /\ output_metadata_dict =
         _add_output_to_output_metadata_dict(
             flag_save_rtc_anf, "rtc", output_dir_mosaic_raster,
             _add_output_to_output_metadata_dict(
                 flag_save_nlooks, "nlooks", output_dir_mosaic_raster,
                 EmptyDict))
    /\ radar_grid_file_dict = <<>>
    /\ geocode_calls = <<>>
    /\ mosaic_calls = <<>>
    /\ disk = {}
    /\ created = {}
    /\ cfg_geogrid = NoGeogrid
    /\ correction_calls = <<>>
    /\ slc_args = NoArgs
    /\ corrected_image = NoImage
    /\ burst = NoBurst
    /\ valid_samples_sub_swath = <<>>
    /\ namespace = NoNamespace
    /\ radar_grid_calls = <<>>

(***************************************************************************)
(* The burst loop, lines 303-559.                                          *)
(***************************************************************************)
\* line 313: burst_pol_dict[pols[0]], the burst object of an iteration; its
\* valid lines and samples lie within its radar grid
FirstPolBurst ==
    [first_valid_line |-> 1, last_valid_line |-> 2,
     first_valid_sample |-> 1, last_valid_sample |-> 2,
     length |-> 3, width |-> 3]

\* a fault of lines 335-336: the accumulator is not updated
stage_after_snap_skips_update == "LOAD_AND_CORRECT_PER_POLARIZATION"

\* lines 327-336: the accumulator is updated right after the snap
stage_after_snap == "UPDATE_MOSAIC_BOUNDS"

\* lines 308-333: start of an iteration, the burst's geogrid is snapped
SnapGeogrid ==
    /\ pc = "SNAP_GEOGRID"
    /\ burst' = FirstPolBurst
    /\ \E g \in CfgGeogrids :
         geogrid' = [g EXCEPT
            !.start_x = snap_coord(g.start_x, g.spacing_x, "floor"),
            !.start_y = snap_coord(g.start_y, g.spacing_y, "ceil")]
    /\ pc' = stage_after_snap
    /\ UNCHANGED <<cfg, radar_grid_calls, cfg_geogrid, correction_calls,
                   slc_args, corrected_image, valid_samples_sub_swath,
                   namespace, burst_index, mosaic_geogrid_dict, applied,
                   input_file_list, temp_files_list, output_file_list,
                   output_imagery_list, output_metadata_dict,
                   radar_grid_file_dict, geocode_calls, mosaic_calls,
                   disk, created>>

\* a fault: the failure of a burst is caught and the loop goes on to the end
\* of the iteration
raise_exception_skips_burst == "EMIT_PER_BURST_METADATA_CONTAINER"

\* `raise` (line 414) and every exception of a callee: run has no
\* try/except, the exception leaves run and nothing more is executed
raise_exception == "error"

\* lines 335-336
UpdateMosaicBounds ==
    /\ pc = "UPDATE_MOSAIC_BOUNDS"
    /\ LET r == _update_mosaic_boundaries(mosaic_geogrid_dict, geogrid)
       IN  /\ mosaic_geogrid_dict' = r.dict
           /\ pc' = IF r.raised THEN raise_exception
                    ELSE "LOAD_AND_CORRECT_PER_POLARIZATION"
    /\ UNCHANGED <<cfg, radar_grid_calls, cfg_geogrid, correction_calls, slc_args,
                   corrected_image, burst, valid_samples_sub_swath, namespace,
                   burst_index, geogrid, applied,
                   input_file_list, temp_files_list, output_file_list,
                   output_imagery_list, output_metadata_dict,
                   radar_grid_file_dict, geocode_calls, mosaic_calls,
                   disk, created>>

\* lines 341-347: orbit, wavelength and look side are kept from the first burst
RecordOrbit(d) ==
    LET d1 == IF "orbit" \notin DOMAIN d
              THEN Put(d, "orbit", burst_id) ELSE d
        d2 == IF "wavelength" \notin DOMAIN d1
              THEN Put(d1, "wavelength", burst_id) ELSE d1
    IN  IF "lookside" \notin DOMAIN d2
        THEN Put(d2, "lookside", burst_id) ELSE d2

\* lines 360-367: the call of apply_slc_corrections for one polarization;
\* the raster it writes is GDT_Float32 unless complex output is asked for
\* (lines 130, 135)
CorrectionCall(pol) ==
    [burst |-> burst_id,
     pol |-> pol,
     path_slc_vrt |-> temp_slc_path(pol),
     path_slc_out |-> temp_slc_corrected_path(pol),
     flag_output_complex |-> FALSE,
     flag_thermal_correction |-> flag_apply_thermal_noise_correction,
     flag_apply_abs_rad_correction |-> TRUE,
     dtype |-> "Float32"]

\* lines 338-373: every polarization is loaded to a VRT and, when a
\* correction is requested, corrected into a raster of its own
LoadAndCorrect ==
    /\ pc = "LOAD_AND_CORRECT_PER_POLARIZATION"
    /\ mosaic_geogrid_dict' = RecordOrbit(mosaic_geogrid_dict)
    /\ correction_calls' =
         IF flag_apply_thermal_noise_correction \/ flag_apply_abs_rad_correction
         THEN correction_calls \o
                  [i \in DOMAIN pol_list |-> CorrectionCall(pol_list[i])]
         ELSE correction_calls
    /\ LET inputs == [i \in DOMAIN pol_list |-> input_burst_filename(pol_list[i])]
           files  == {temp_slc_path(pol_list[i]) : i \in DOMAIN pol_list}
                        \cup Range(inputs)
       IN  /\ input_file_list' = inputs
           /\ temp_files_list' = temp_files_list \o inputs
           /\ disk' = disk \cup files
           /\ created' = created \cup files
    /\ pc' = "STACK_BANDS"
    /\ UNCHANGED <<cfg, radar_grid_calls, cfg_geogrid, slc_args, corrected_image, burst,
                   valid_samples_sub_swath, namespace, burst_index, geogrid, applied, output_file_list,
                   output_imagery_list, output_metadata_dict,
                   radar_grid_file_dict, geocode_calls, mosaic_calls>>

\* lines 375-383
StackBands ==
    /\ pc = "STACK_BANDS"
    /\ IF Len(input_file_list) = 1
       THEN UNCHANGED <<temp_files_list, disk, created>>
       ELSE /\ temp_files_list' = Append(temp_files_list, temp_vrt_path)
            /\ disk' = disk \cup {temp_vrt_path}
            /\ created' = created \cup {temp_vrt_path}
    /\ pc' = "ALLOCATE_OUTPUT_RASTERS"
    /\ UNCHANGED <<cfg, radar_grid_calls, cfg_geogrid, correction_calls, slc_args,
                   corrected_image, burst, valid_samples_sub_swath, namespace,
                   burst_index, geogrid, mosaic_geogrid_dict, applied,
                   input_file_list, output_file_list,
                   output_imagery_list, output_metadata_dict,
                   radar_grid_file_dict, geocode_calls, mosaic_calls>>

\* rdr_burst_raster.datatype(): a corrected raster is written as Float32
\* (line 135), a raw SLC VRT has the element type of the input product
RasterDataTypes ==
    IF flag_apply_thermal_noise_correction \/ flag_apply_abs_rad_correction
    THEN {"Float32"} ELSE SlcDataTypes

SupportedDataTypes == {"Float32", "Float64", "CFloat32", "CFloat64"}

\* lines 385-395, 431-437, 445-451: the burst's output rasters, each
\* appended to temp_files_list or to output_file_list
BurstRasters ==
    <<geo_burst_filename>>
        \o (IF flag_save_nlooks THEN <<nlooks_file>> ELSE <<>>)
        \o (IF flag_save_rtc_anf THEN <<rtc_anf_file>> ELSE <<>>)

\* a fault of lines 388-392: the files are listed as outputs in any case
ListedAsOutput_always(files) == output_file_list \o files

\* lines 388-392, 436-440, 450-454: a burst file joins the outputs only
\* when the bursts' files are not temporary
ListedAsOutput(files) ==
    IF flag_bursts_files_are_temporary THEN output_file_list
    ELSE output_file_list \o files

\* the same lines: it joins the temporary files otherwise
ListedAsTemporary(files) ==
    IF flag_bursts_files_are_temporary THEN temp_files_list \o files
    ELSE temp_files_list

\* lines 385-458: the geocoded raster is listed, then created, before the
\* Geocode object is chosen; the creation of the raster may fail, and an
\* unsupported element type raises NotImplementedError
AllocateOutputRasters ==
    /\ pc = "ALLOCATE_OUTPUT_RASTERS"
    /\ \E datatype \in RasterDataTypes, raster_created \in BOOLEAN :
         IF raster_created /\ datatype \in SupportedDataTypes
         THEN /\ temp_files_list' = ListedAsTemporary(BurstRasters)
              /\ output_file_list' = ListedAsOutput(BurstRasters)
              /\ disk' = disk \cup Range(BurstRasters)
              /\ created' = created \cup Range(BurstRasters)
              /\ pc' = "BUILD_VALID_MASK"
         ELSE /\ temp_files_list' = ListedAsTemporary(<<geo_burst_filename>>)
              /\ output_file_list' = ListedAsOutput(<<geo_burst_filename>>)
              /\ IF raster_created
                 THEN /\ disk' = disk \cup {geo_burst_filename}
                      /\ created' = created \cup {geo_burst_filename}
                 ELSE UNCHANGED <<disk, created>>
              /\ pc' = raise_exception
    /\ UNCHANGED <<cfg, radar_grid_calls, cfg_geogrid, correction_calls, slc_args,
                   corrected_image, burst, valid_samples_sub_swath, namespace,
                   burst_index, geogrid, mosaic_geogrid_dict, applied,
                   input_file_list, output_imagery_list,
                   output_metadata_dict, radar_grid_file_dict,
                   geocode_calls, mosaic_calls>>

Min(a, b) == IF a <= b THEN a ELSE b

\* line 466
last_range_sample == Min(burst.last_valid_sample, burst.width)

\* a fault of lines 470-473: the loop stops one row early
RECURSIVE zero_rows_stops_early(_, _, _)
zero_rows_stops_early(table, i, stop) ==
    IF i >= stop - 1 THEN table
    ELSE zero_rows_stops_early([table EXCEPT ![i + 1] = <<0, 0>>], i + 1, stop)

\* for i in range(start, stop): table[i, :] = 0  (rows are 0-based in the code)
RECURSIVE zero_rows(_, _, _)
zero_rows(table, i, stop) ==
    IF i >= stop THEN table
    ELSE zero_rows([table EXCEPT ![i + 1] = <<0, 0>>], i + 1, stop)

\* lines 467-473
build_valid_samples_sub_swath ==
    LET repeated == [i \in 1..burst.length |->
                        <<burst.first_valid_sample, last_range_sample + 1>>]
        head_zeroed == zero_rows(repeated, 0, burst.first_valid_line)
    IN  zero_rows(head_zeroed, burst.last_valid_line, burst.length)

\* lines 460-475
BuildValidMask ==
    /\ pc = "BUILD_VALID_MASK"
    /\ valid_samples_sub_swath' = build_valid_samples_sub_swath
    /\ pc' = "INVOKE_GEOCODE"
    /\ UNCHANGED <<cfg, radar_grid_calls, burst_index, geogrid, mosaic_geogrid_dict, applied,
                   input_file_list, temp_files_list, output_file_list,
                   output_imagery_list, output_metadata_dict,
                   radar_grid_file_dict, geocode_calls, mosaic_calls,
                   disk, created, cfg_geogrid, correction_calls, slc_args,
                   corrected_image, burst, namespace>>

\* lines 477-504: the call of geo_obj.geocode, which returns or raises
InvokeGeocode ==
    /\ pc = "INVOKE_GEOCODE"
    /\ \E geocoded \in BOOLEAN :
         IF geocoded
         THEN /\ geocode_calls' = Append(geocode_calls,
                   [burst         |-> burst_id,
                    input_raster  |-> rdr_burst_raster,
                    bands         |-> input_file_list,
                    sub_swaths    |-> valid_samples_sub_swath,
                    output_raster |-> geo_burst_filename,
                    exponent      |-> exponent,
                    out_geo_nlooks |-> IF flag_save_nlooks
                                       THEN <<nlooks_file>> ELSE <<>>,
                    out_geo_rtc    |-> IF flag_save_rtc_anf
                                       THEN <<rtc_anf_file>> ELSE <<>>])
              /\ pc' = "CLASSIFY_AND_RECORD_OUTPUTS"
         ELSE /\ UNCHANGED geocode_calls
              /\ pc' = raise_exception
    /\ UNCHANGED <<cfg, radar_grid_calls, cfg_geogrid, correction_calls, slc_args,
                   corrected_image, burst, valid_samples_sub_swath, namespace,
                   burst_index, geogrid, mosaic_geogrid_dict, applied,
                   input_file_list, temp_files_list, output_file_list,
                   output_imagery_list, output_metadata_dict,
                   radar_grid_file_dict, mosaic_calls, disk, created>>

\* a fault of lines 515 and 521: the file is put at the head of the list
AppendInput_prepends(dict, key, file) ==
    [dict EXCEPT ![key].inputs = <<file>> \o @]

\* output_metadata_dict[key][1].append(file)
AppendInput(dict, key, file) ==
    [dict EXCEPT ![key].inputs = Append(@, file)]

\* lines 506-521
RecordOutputs ==
    /\ pc = "CLASSIFY_AND_RECORD_OUTPUTS"
    /\ output_imagery_list' = Append(output_imagery_list, geo_burst_filename)
    /\ output_metadata_dict' =
         LET d1 == IF flag_save_nlooks
                   THEN AppendInput(output_metadata_dict, "nlooks", nlooks_file)
                   ELSE output_metadata_dict
         IN  IF flag_save_rtc_anf
             THEN AppendInput(d1, "rtc", rtc_anf_file) ELSE d1
    /\ pc' = "EMIT_PER_BURST_AUX_LAYERS"
    /\ UNCHANGED <<cfg, radar_grid_calls, cfg_geogrid, correction_calls, slc_args,
                   corrected_image, burst, valid_samples_sub_swath, namespace,
                   burst_index, geogrid, mosaic_geogrid_dict, applied,
                   input_file_list, temp_files_list, output_file_list,
                   radar_grid_file_dict, geocode_calls, mosaic_calls,
                   disk, created>>

(***************************************************************************)
(* get_radar_grid: _create_raster_obj creates one raster per requested     *)
(* layer in output_dir and enters it in radar_grid_file_dict.  The result  *)
(* is the dict's items, in insertion order.                                *)
(***************************************************************************)
get_radar_grid(dir) ==
    LET layers == SelectSeq(AuxLayers, LAMBDA l : l.flag \in cfg.save_layers)
    IN  [i \in DOMAIN layers |->
            <<layers[i].ds,
              File(dir, <<product_id, layers[i].name>>, extension)>>]

\* lines 713-732: the call of isce3.geogrid.get_radar_grid that one call of
\* get_radar_grid makes; look side and wavelength are read from the
\* accumulator (lines 713-714), geogrid and orbit are the arguments of
\* get_radar_grid (lines 716-717)
RadarGridCall(level, geogrid_in, orbit_in, dir) ==
    [level |-> level,
     burst |-> burst_index,
     lookside |-> mosaic_geogrid_dict["lookside"],
     wavelength |-> mosaic_geogrid_dict["wavelength"],
     geogrid |-> geogrid_in,
     orbit |-> orbit_in,
     output_dir |-> dir]

\* lines 523-538: the orbit handed over is line 341's, this burst's
BurstAuxLayers ==
    /\ pc = "EMIT_PER_BURST_AUX_LAYERS"
    /\ IF flag_call_radar_grid /\ ~flag_mosaic
       THEN LET items == get_radar_grid(bursts_output_dir)
            IN  /\ radar_grid_file_dict' = items
                /\ radar_grid_calls' = Append(radar_grid_calls,
                       RadarGridCall("burst", geogrid, burst_id,
                                     bursts_output_dir))
                /\ disk' = disk \cup Range(DictValues(items))
                /\ created' = created \cup Range(DictValues(items))
                /\ IF flag_hdf5
                   THEN /\ temp_files_list' =
                              temp_files_list \o DictValues(items)
                        /\ UNCHANGED output_file_list
                   ELSE /\ output_file_list' =
                              output_file_list \o DictValues(items)
                        /\ UNCHANGED temp_files_list
       ELSE /\ radar_grid_file_dict' = <<>>
            /\ UNCHANGED <<temp_files_list, output_file_list, disk, created,
                           radar_grid_calls>>
    /\ pc' = "EMIT_PER_BURST_METADATA_CONTAINER"
    /\ UNCHANGED <<cfg, cfg_geogrid, correction_calls, slc_args,
                   corrected_image, burst, valid_samples_sub_swath, namespace,
                   burst_index, geogrid, mosaic_geogrid_dict, applied,
                   input_file_list, output_imagery_list,
                   output_metadata_dict, geocode_calls, mosaic_calls>>

\* the metadata container of one burst (line 543) and of the mosaic (line 300)
burst_hdf5_file ==
    File(BurstDir(output_dir, burst_id), <<product_id>>, hdf5_file_extension)

output_hdf5_file == File(output_dir, <<product_id>>, hdf5_file_extension)

(***************************************************************************)
(* create_hdf5_file and save_hdf5_file of rtc.h5_prep: the metadata        *)
(* container is created at the given path and written from the rasters it  *)
(* is handed; output_file_list is an input of the call.  The result is the *)
(* disk after the call.                                                    *)
(***************************************************************************)
save_hdf5_file(file, files) == files \cup {file}

\* a fault of lines 561-649: the mosaic stages are skipped
stage_after_last_burst_skips_mosaic == "REMOVE_TEMPORARY_FILES"

\* lines 561-651: what follows the loop; every mosaic stage is under
\* `if flag_mosaic` (or `flag_call_radar_grid and flag_mosaic`)
stage_after_last_burst ==
    IF flag_mosaic THEN "MOSAIC_AUX_LAYERS" ELSE "REMOVE_TEMPORARY_FILES"

\* lines 540-559: the burst's metadata container, and the end of the iteration
BurstMetadata ==
    /\ pc = "EMIT_PER_BURST_METADATA_CONTAINER"
    /\ IF flag_hdf5 /\ ~flag_mosaic
       THEN /\ disk' = save_hdf5_file(burst_hdf5_file, disk)
            /\ created' = created \cup {burst_hdf5_file}
       ELSE IF flag_hdf5 /\ flag_mosaic /\ burst_index = 0
       THEN /\ disk' = disk \cup {output_hdf5_file}
            /\ created' = created \cup {output_hdf5_file}
       ELSE UNCHANGED <<disk, created>>
    /\ burst_index' = burst_index + 1
    /\ pc' = IF burst_index + 1 < n_bursts THEN "SNAP_GEOGRID"
             ELSE stage_after_last_burst
    /\ UNCHANGED <<cfg, radar_grid_calls, cfg_geogrid, correction_calls, slc_args,
                   corrected_image, burst, valid_samples_sub_swath, namespace,
                   geogrid, mosaic_geogrid_dict, applied,
                   input_file_list, temp_files_list, output_file_list,
                   output_imagery_list, output_metadata_dict,
                   radar_grid_file_dict, geocode_calls, mosaic_calls>>

(***************************************************************************)
(* After the loop, lines 561-663.                                          *)
(***************************************************************************)
\* lines 561-580: cfg.geogrid is read here for the first time; the orbit
\* handed over is the local of line 341, which the last burst assigned
MosaicAuxLayers ==
    /\ pc = "MOSAIC_AUX_LAYERS"
    /\ cfg_geogrid' \in CfgMosaicGeogrids
    /\ IF flag_call_radar_grid
       THEN LET items == get_radar_grid(output_dir_mosaic_raster)
            IN  /\ radar_grid_file_dict' = items
                /\ radar_grid_calls' = Append(radar_grid_calls,
                       RadarGridCall("mosaic", cfg_geogrid', burst_index,
                                     output_dir_mosaic_raster))
                /\ disk' = disk \cup Range(DictValues(items))
                /\ created' = created \cup Range(DictValues(items))
                /\ IF flag_hdf5
                   THEN /\ temp_files_list' =
                              temp_files_list \o DictValues(items)
                        /\ UNCHANGED output_file_list
                   ELSE /\ output_file_list' =
                              output_file_list \o DictValues(items)
                        /\ UNCHANGED temp_files_list
       ELSE UNCHANGED <<radar_grid_file_dict, temp_files_list,
                        output_file_list, disk, created, radar_grid_calls>>
    /\ pc' = "MOSAIC_IMAGERY"
    /\ UNCHANGED <<cfg, correction_calls, slc_args, corrected_image, burst,
                   valid_samples_sub_swath, namespace, burst_index, geogrid, mosaic_geogrid_dict, applied,
                   input_file_list, output_imagery_list,
                   output_metadata_dict, geocode_calls, mosaic_calls>>

geo_filename == File(output_dir_mosaic_raster, <<product_id>>, extension)

\* a fault of lines 588 and 600: a layer is weighted by itself
MosaicCall_self_weighted(inputs, weights, output, geogrid_in) ==
    [inputs |-> inputs, weights |-> inputs, output |-> output,
     geogrid |-> geogrid_in]

\* a call of weighted_mosaic(list_rtc, list_nlooks, geo_filename, geogrid)
MosaicCall(inputs, weights, output, geogrid_in) ==
    [inputs |-> inputs, weights |-> weights, output |-> output,
     geogrid |-> geogrid_in]

\* lines 582-594: output_metadata_dict['nlooks'] raises KeyError when the
\* number-of-looks layer was not requested
MosaicImagery ==
    /\ pc = "MOSAIC_IMAGERY"
    /\ IF "nlooks" \notin DOMAIN output_metadata_dict
       THEN /\ pc' = raise_exception
            /\ UNCHANGED <<temp_files_list, output_file_list, mosaic_calls,
                           disk, created>>
       ELSE /\ mosaic_calls' = Append(mosaic_calls,
                  MosaicCall(output_imagery_list,
                             output_metadata_dict["nlooks"].inputs,
                             geo_filename, cfg_geogrid))
            /\ disk' = disk \cup {geo_filename}
            /\ created' = created \cup {geo_filename}
            /\ IF flag_hdf5
               THEN /\ temp_files_list' = Append(temp_files_list, geo_filename)
                    /\ UNCHANGED output_file_list
               ELSE /\ output_file_list' =
                          Append(output_file_list, geo_filename)
                    /\ UNCHANGED temp_files_list
            /\ pc' = "MOSAIC_OTHER_BANDS"
    /\ UNCHANGED <<cfg, radar_grid_calls, cfg_geogrid, correction_calls, slc_args,
                   corrected_image, burst, valid_samples_sub_swath, namespace,
                   burst_index, geogrid, mosaic_geogrid_dict, applied,
                   input_file_list, output_imagery_list,
                   output_metadata_dict, radar_grid_file_dict, geocode_calls>>

\* lines 596-605: one weighted_mosaic call per key of output_metadata_dict
MosaicOtherBands ==
    /\ pc = "MOSAIC_OTHER_BANDS"
    /\ LET keys  == MetadataKeys(output_metadata_dict)
           files == [i \in DOMAIN keys |-> output_metadata_dict[keys[i]].file]
           calls == [i \in DOMAIN keys |->
                        MosaicCall(output_metadata_dict[keys[i]].inputs,
                                   output_metadata_dict["nlooks"].inputs,
                                   output_metadata_dict[keys[i]].file,
                                   cfg_geogrid)]
       IN  /\ mosaic_calls' = mosaic_calls \o calls
           /\ disk' = disk \cup Range(files)
           /\ created' = created \cup Range(files)
           /\ IF flag_hdf5
              THEN /\ temp_files_list' = temp_files_list \o files
                   /\ UNCHANGED output_file_list
              ELSE /\ output_file_list' = output_file_list \o files
                   /\ UNCHANGED temp_files_list
    /\ pc' = IF flag_hdf5 THEN "MOSAIC_METADATA_CONTAINER"
             ELSE "REMOVE_TEMPORARY_FILES"
    /\ UNCHANGED <<cfg, radar_grid_calls, cfg_geogrid, correction_calls, slc_args,
                   corrected_image, burst, valid_samples_sub_swath, namespace,
                   burst_index, geogrid, mosaic_geogrid_dict, applied,
                   input_file_list, output_imagery_list,
                   output_metadata_dict, radar_grid_file_dict, geocode_calls>>

\* lines 607-649
MosaicMetadata ==
    /\ pc = "MOSAIC_METADATA_CONTAINER"
    /\ disk' = save_hdf5_file(output_hdf5_file, disk)
    /\ pc' = "REMOVE_TEMPORARY_FILES"
    /\ UNCHANGED <<cfg, radar_grid_calls, cfg_geogrid, correction_calls, slc_args,
                   corrected_image, burst, valid_samples_sub_swath, namespace,
                   burst_index, geogrid, mosaic_geogrid_dict, applied,
                   input_file_list, temp_files_list, output_file_list,
                   output_imagery_list, output_metadata_dict,
                   radar_grid_file_dict, geocode_calls, mosaic_calls, created>>

\* a fault of lines 653-655: the test of os.path.isfile is inverted
RECURSIVE remove_temporary_files_inverted(_, _)
remove_temporary_files_inverted(file_list, files) ==
    IF file_list = <<>> THEN files
    ELSE IF Head(file_list) \in files
    THEN remove_temporary_files_inverted(Tail(file_list), files)
    ELSE remove_temporary_files_inverted(Tail(file_list),
                                         files \ {Head(file_list)})

\* a fault of lines 654-655: a path that is no file ends the loop
RECURSIVE remove_temporary_files_stops_at_missing(_, _)
remove_temporary_files_stops_at_missing(file_list, files) ==
    IF file_list = <<>> THEN files
    ELSE IF Head(file_list) \notin files
    THEN files
    ELSE remove_temporary_files_stops_at_missing(Tail(file_list),
                                                 files \ {Head(file_list)})

\* lines 652-656: the files of file_list are removed from the disk `files`,
\* a path that is no file is skipped
RECURSIVE remove_temporary_files(_, _)
remove_temporary_files(file_list, files) ==
    IF file_list = <<>> THEN files
    ELSE IF Head(file_list) \notin files
    THEN remove_temporary_files(Tail(file_list), files)
    ELSE remove_temporary_files(Tail(file_list), files \ {Head(file_list)})

\* lines 651-663
RemoveTemporaryFiles ==
    /\ pc = "REMOVE_TEMPORARY_FILES"
    /\ disk' = remove_temporary_files(temp_files_list, disk)
    /\ pc' = "done"
    /\ UNCHANGED <<cfg, radar_grid_calls, cfg_geogrid, correction_calls, slc_args,
                   corrected_image, burst, valid_samples_sub_swath, namespace,
                   burst_index, geogrid, mosaic_geogrid_dict, applied,
                   input_file_list, temp_files_list, output_file_list,
                   output_imagery_list, output_metadata_dict,
                   radar_grid_file_dict, geocode_calls, mosaic_calls, created>>

Next ==
    \/ SnapGeogrid
    \/ UpdateMosaicBounds
    \/ LoadAndCorrect
    \/ StackBands
    \/ AllocateOutputRasters
    \/ BuildValidMask
    \/ InvokeGeocode
    \/ RecordOutputs
    \/ BurstAuxLayers
    \/ BurstMetadata
    \/ MosaicAuxLayers
    \/ MosaicImagery
    \/ MosaicOtherBands
    \/ MosaicMetadata
    \/ RemoveTemporaryFiles

Spec == Init /\ [][Next]_vars

(***************************************************************************)
(* The accumulator on its own: _update_mosaic_boundaries is applied up to  *)
(* MaxUpdates times to one dict, starting from the empty dict.             *)
(***************************************************************************)
Geogrid(x, y, dx, dy, w, l, e) ==
    [start_x |-> x, start_y |-> y, spacing_x |-> dx, spacing_y |-> dy,
     width |-> w, length |-> l, epsg |-> e]

\* four geogrids of one mosaic (overlapping, nested, disjoint extents) and
\* three that disagree with them in dx, in dy and in the EPSG code
BoundaryGeogrids ==
    { Geogrid(0, 100, 5, -5, 10, 10, 32610),
      Geogrid(40, 80, 5, -5, 10, 10, 32610),
      Geogrid(10, 90, 5, -5, 4, 4, 32610),
      Geogrid(-15, 120, 5, -5, 30, 2, 32610),
      Geogrid(40, 80, 10, -5, 10, 10, 32610),
      Geogrid(40, 80, 5, -10, 10, 10, 32610),
      Geogrid(40, 80, 5, -5, 10, 10, 32611) }

BoundariesConfig ==
    [ output_format |-> "GTiff",
      mosaic_bursts |-> TRUE,
      apply_thermal_noise_correction |-> TRUE,
      apply_absolute_radiometric_correction |-> TRUE,
      save_nlooks |-> TRUE,
      save_rtc_anf |-> TRUE,
      save_layers |-> {},
      n_bursts |-> MaxUpdates,
      n_pols |-> 1 ]

InitBoundaries ==
    /\ cfg = BoundariesConfig
    /\ pc = "BOUNDARIES"
    /\ burst_index = 0
    /\ geogrid = NoGeogrid
    /\ mosaic_geogrid_dict = EmptyDict
    /\ applied = <<>>
    /\ input_file_list = <<>>
    /\ temp_files_list = <<>>
    /\ output_file_list = <<>>
    /\ output_imagery_list = <<>>
    /\ output_metadata_dict = EmptyDict
    /\ radar_grid_file_dict = <<>>
    /\ geocode_calls = <<>>
    /\ mosaic_calls = <<>>
    /\ disk = {}
    /\ created = {}
    /\ cfg_geogrid = NoGeogrid
    /\ correction_calls = <<>>
    /\ slc_args = NoArgs
    /\ corrected_image = NoImage
    /\ burst = NoBurst
    /\ valid_samples_sub_swath = <<>>
    /\ namespace = NoNamespace
    /\ radar_grid_calls = <<>>

ApplyUpdate ==
    /\ pc = "BOUNDARIES"
    /\ Len(applied) < MaxUpdates
    /\ \E g \in BoundaryGeogrids :
         LET r == _update_mosaic_boundaries(mosaic_geogrid_dict, g)
         IN  /\ geogrid' = g
             /\ applied' = Append(applied, g)
             /\ mosaic_geogrid_dict' = r.dict
             /\ pc' = IF r.raised THEN "error" ELSE "BOUNDARIES"
    /\ UNCHANGED <<cfg, radar_grid_calls, cfg_geogrid, correction_calls, slc_args,
                   corrected_image, burst, valid_samples_sub_swath, namespace,
                   burst_index, input_file_list, temp_files_list,
                   output_file_list, output_imagery_list,
                   output_metadata_dict, radar_grid_file_dict,
                   geocode_calls, mosaic_calls, disk, created>>

NextBoundaries == ApplyUpdate

SpecBoundaries == InitBoundaries /\ [][NextBoundaries]_vars

(***************************************************************************)
(* The valid-sample table of one burst, lines 460-475, on its own.         *)
(***************************************************************************)
MaxLines == 3

MaxSamples == 3

\* the variables of run(cfg) while another specification is explored
RunNotStarted ==
    /\ cfg = BoundariesConfig
    /\ burst_index = 0
    /\ geogrid = NoGeogrid
    /\ mosaic_geogrid_dict = EmptyDict
    /\ applied = <<>>
    /\ input_file_list = <<>>
    /\ temp_files_list = <<>>
    /\ output_file_list = <<>>
    /\ output_imagery_list = <<>>
    /\ output_metadata_dict = EmptyDict
    /\ radar_grid_file_dict = <<>>
    /\ geocode_calls = <<>>
    /\ mosaic_calls = <<>>
    /\ disk = {}
    /\ created = {}
    /\ cfg_geogrid = NoGeogrid
    /\ correction_calls = <<>>

\* burst.first_valid_line, ... and radar_grid.length, radar_grid.width: the
\* valid lines lie within the radar grid, the valid samples may exceed it
Bursts ==
    { b \in [ first_valid_line : 0..MaxLines,
              last_valid_line : 0..MaxLines,
              first_valid_sample : 0..(MaxSamples + 1),
              last_valid_sample : 0..(MaxSamples + 1),
              length : 1..MaxLines,
              width : 1..MaxSamples ] :
        /\ b.first_valid_line <= b.length
        /\ b.last_valid_line <= b.length }
    \cup
    { [ first_valid_line |-> 2, last_valid_line |-> 5,
        first_valid_sample |-> 10, last_valid_sample |-> 19,
        length |-> 7, width |-> 30 ] }

InitMask ==
    /\ RunNotStarted
    /\ pc = "BUILD_VALID_MASK"
    /\ burst \in Bursts
    /\ valid_samples_sub_swath = <<>>
    /\ slc_args = NoArgs
    /\ corrected_image = NoImage
    /\ namespace = NoNamespace
    /\ radar_grid_calls = <<>>

NextMask == BuildValidMask

SpecMask == InitMask /\ [][NextMask]_vars

(***************************************************************************)
(* apply_slc_corrections, lines 99-147, on one sample.  A floating-point   *)
(* value is finite (a fraction num/den, den > 0), an infinity or a NaN;    *)
(* division by zero and the product of zero and infinity follow IEEE 754,  *)
(* as numpy does.                                                          *)
(***************************************************************************)
Finite(n, d) == [kind |-> "finite", num |-> n, den |-> d]

NaN == [kind |-> "nan", num |-> 0, den |-> 1]

Inf == [kind |-> "inf", num |-> 1, den |-> 1]

\* the integer square root of a perfect square
ISqrt(n) == CHOOSE r \in 0..n : r * r = n

IsSquare(n) == \E r \in 0..n : r * r = n

\* x / y for a non-negative integer x and a non-negative integer y
np_divide(x, y) ==
    IF y # 0 THEN Finite(x, y)
    ELSE IF x = 0 THEN NaN
    ELSE Inf

\* a * f for an integer a and a floating-point f
np_multiply(a, f) ==
    IF f.kind = "nan" THEN NaN
    ELSE IF f.kind = "inf" THEN (IF a = 0 THEN NaN ELSE Inf)
    ELSE Finite(a * f.num, f.den)

\* f / b for a floating-point f and a positive integer b
np_divide_by(f, b) ==
    IF f.kind = "finite" THEN Finite(f.num, f.den * b) ELSE f

\* a fault of lines 117-120: the corrected power is not clipped
np_clip_missing(x, min_backscatter) == x

\* np.clip(x, min_backscatter, None), lines 117-120
np_clip(x, min_backscatter) == IF x < min_backscatter THEN min_backscatter ELSE x

\* the samples, thermal noise LUT values and calibration constants tried; a
\* sample is <<re, im>> with an integer modulus
SlcSamples == { <<0, 0>>, <<3, 4>>, <<0, -5>>, <<-4, 0>> }

ThermalNoiseLutValues == {-16, -9, 0, 9, 16, 21, 25, 30}

BetaNaughts == {1, 2}

\* |slc| ** 2
Abs2(slc) == slc[1] * slc[1] + slc[2] * slc[2]

\* lines 114-122
corrected_power(args) ==
    IF args.flag_thermal_correction
    THEN np_clip(Abs2(args.arr_slc_from) - args.thermal_noise_lut, 0)
    ELSE Abs2(args.arr_slc_from)

\* the arguments of one call; with complex output the corrected power is a
\* perfect square, so that its square root is exact
SlcArgs ==
    { a \in [ arr_slc_from : SlcSamples,
              thermal_noise_lut : ThermalNoiseLutValues,
              beta_naught : BetaNaughts,
              flag_output_complex : BOOLEAN,
              flag_thermal_correction : BOOLEAN,
              flag_apply_abs_rad_correction : BOOLEAN ] :
        a.flag_output_complex => IsSquare(corrected_power(a)) }

\* lines 126-138: the sample written, <<re, im>> for complex output and
\* <<power>> otherwise
apply_slc_corrections(args) ==
    LET slc == args.arr_slc_from
        power == corrected_power(args)
    IN  IF args.flag_output_complex
        THEN LET ratio == np_divide(ISqrt(power), ISqrt(Abs2(slc)))
                 factor_mag == IF ratio.kind = "nan" THEN Finite(0, 1) ELSE ratio
                 re == np_multiply(slc[1], factor_mag)
                 im == np_multiply(slc[2], factor_mag)
             IN  IF args.flag_apply_abs_rad_correction
                 THEN <<np_divide_by(re, args.beta_naught),
                        np_divide_by(im, args.beta_naught)>>
                 ELSE <<re, im>>
        ELSE IF args.flag_apply_abs_rad_correction
             THEN <<np_divide_by(Finite(power, 1),
                                 args.beta_naught * args.beta_naught)>>
             ELSE <<Finite(power, 1)>>

InitCorrections ==
    /\ RunNotStarted
    /\ pc = "APPLY_SLC_CORRECTIONS"
    /\ slc_args \in SlcArgs
    /\ corrected_image = NoImage
    /\ burst = NoBurst
    /\ valid_samples_sub_swath = <<>>
    /\ namespace = NoNamespace
    /\ radar_grid_calls = <<>>

\* lines 108-147
ApplySlcCorrections ==
    /\ pc = "APPLY_SLC_CORRECTIONS"
    /\ corrected_image' = apply_slc_corrections(slc_args)
    /\ pc' = "CORRECTED"
    /\ UNCHANGED <<cfg, radar_grid_calls, burst_index, geogrid, mosaic_geogrid_dict, applied,
                   input_file_list, temp_files_list, output_file_list,
                   output_imagery_list, output_metadata_dict,
                   radar_grid_file_dict, geocode_calls, mosaic_calls,
                   disk, created, cfg_geogrid, correction_calls, slc_args,
                   burst, valid_samples_sub_swath, namespace>>

NextCorrections == ApplySlcCorrections

SpecCorrections == InitCorrections /\ [][NextCorrections]_vars

(***************************************************************************)
(* The enumerated run parameters: _load_parameters (lines 742-814) and the *)
(* start of run (lines 166-269), up to the burst loop.  None is "None".    *)
(***************************************************************************)
Unrecognized == "unrecognized"

\* the values a run configuration may give to the enumerated parameters
Namespaces ==
    [ memory_mode : {"single_block", "geogrid", "geogrid_and_radargrid",
                     "auto", "None", Unrecognized},
      output_type : {"sigma0", "gamma0", Unrecognized},
      input_terrain_radiometry : {"sigma0", "beta0", Unrecognized},
      dem_interpolation_method : {"biquintic", "sinc", "bilinear", "bicubic",
                                  "nearest", Unrecognized},
      geocoding_algorithm_type : {"area_projection", "interp", Unrecognized},
      rtc_algorithm_type : {"area_projection", "bilinear_distribution",
                            Unrecognized},
      dem_interpolation_method_enum : {"unset"},
      geocode_algorithm : {"unset"},
      rtc_algorithm : {"unset"} ]

\* lines 759-774
load_memory_mode(ns) ==
    IF ns.memory_mode = "single_block"
    THEN [ns EXCEPT !.memory_mode = "GeocodeMemoryMode.SingleBlock"]
    ELSE IF ns.memory_mode = "geogrid"
    THEN [ns EXCEPT !.memory_mode = "GeocodeMemoryMode.BlocksGeogrid"]
    ELSE IF ns.memory_mode = "geogrid_and_radargrid"
    THEN [ns EXCEPT !.memory_mode =
                        "GeocodeMemoryMode.BlocksGeogridAndRadarGrid"]
    ELSE IF ns.memory_mode = "auto" \/ ns.memory_mode = "None"
    THEN [ns EXCEPT !.memory_mode = "GeocodeMemoryMode.Auto"]
    ELSE ns

memory_mode_raises(ns) ==
    ns.memory_mode \notin {"single_block", "geogrid", "geogrid_and_radargrid",
                           "auto", "None"}

\* lines 776-782
load_output_type(ns) ==
    IF ns.output_type = "sigma0"
    THEN [ns EXCEPT !.output_type = "RtcOutputTerrainRadiometry.SIGMA_NAUGHT"]
    ELSE [ns EXCEPT !.output_type = "RtcOutputTerrainRadiometry.GAMMA_NAUGHT"]

\* lines 784-789
load_input_terrain_radiometry(ns) ==
    IF ns.input_terrain_radiometry = "sigma0"
    THEN [ns EXCEPT !.input_terrain_radiometry =
                        "RtcInputTerrainRadiometry.SIGMA_NAUGHT_ELLIPSOID"]
    ELSE [ns EXCEPT !.input_terrain_radiometry =
                        "RtcInputTerrainRadiometry.BETA_NAUGHT"]

\* lines 808-811
dem_interp_method_raises(ns) ==
    ns.dem_interpolation_method \notin
        {"biquintic", "sinc", "bilinear", "bicubic", "nearest"}

\* lines 795-814
load_dem_interp_method(ns) ==
    LET m == ns.dem_interpolation_method
    IN  [ns EXCEPT !.dem_interpolation_method_enum =
            IF m = "biquintic" THEN "DataInterpMethod.BIQUINTIC"
            ELSE IF m = "sinc" THEN "DataInterpMethod.SINC"
            ELSE IF m = "bilinear" THEN "DataInterpMethod.BILINEAR"
            ELSE IF m = "bicubic" THEN "DataInterpMethod.BICUBIC"
            ELSE IF m = "nearest" THEN "DataInterpMethod.NEAREST"
            ELSE "DataInterpMethod.BILINEAR"]

InitParameters ==
    /\ RunNotStarted
    /\ pc = "LOAD_PARAMETERS"
    /\ namespace \in Namespaces
    /\ slc_args = NoArgs
    /\ corrected_image = NoImage
    /\ burst = NoBurst
    /\ valid_samples_sub_swath = <<>>
    /\ radar_grid_calls = <<>>

\* _load_parameters(cfg), lines 742-814: the namespace is updated in place,
\* a ValueError leaves it as far as it was updated
LoadParameters ==
    /\ pc = "LOAD_PARAMETERS"
    /\ IF memory_mode_raises(namespace)
       THEN /\ pc' = "error"
            /\ UNCHANGED namespace
       ELSE LET ns1 == load_memory_mode(namespace)
                ns2 == load_output_type(ns1)
                ns3 == load_input_terrain_radiometry(ns2)
            IN  IF dem_interp_method_raises(ns3)
                THEN /\ pc' = "error"
                     /\ namespace' = ns3
                ELSE /\ pc' = "RUN"
                     /\ namespace' = load_dem_interp_method(ns3)
    /\ UNCHANGED <<cfg, radar_grid_calls, burst_index, geogrid, mosaic_geogrid_dict, applied,
                   input_file_list, temp_files_list, output_file_list,
                   output_imagery_list, output_metadata_dict,
                   radar_grid_file_dict, geocode_calls, mosaic_calls,
                   disk, created, cfg_geogrid, correction_calls, slc_args,
                   corrected_image, burst, valid_samples_sub_swath>>

\* run(cfg), lines 166-269: the parameters are unpacked, the two algorithm
\* types are mapped (lines 208-211, 240-243) and the burst loop is entered
UnpackParameters ==
    /\ pc = "RUN"
    /\ namespace' =
         [namespace EXCEPT
            !.geocode_algorithm =
                IF namespace.geocoding_algorithm_type = "area_projection"
                THEN "GeocodeOutputMode.AREA_PROJECTION"
                ELSE "GeocodeOutputMode.INTERP",
            !.rtc_algorithm =
                IF namespace.rtc_algorithm_type = "bilinear_distribution"
                THEN "RtcAlgorithm.RTC_BILINEAR_DISTRIBUTION"
                ELSE "RtcAlgorithm.RTC_AREA_PROJECTION"]
    /\ pc' = "SNAP_GEOGRID"
    /\ UNCHANGED <<cfg, radar_grid_calls, burst_index, geogrid, mosaic_geogrid_dict, applied,
                   input_file_list, temp_files_list, output_file_list,
                   output_imagery_list, output_metadata_dict,
                   radar_grid_file_dict, geocode_calls, mosaic_calls,
                   disk, created, cfg_geogrid, correction_calls, slc_args,
                   corrected_image, burst, valid_samples_sub_swath>>

NextParameters ==
    \/ LoadParameters
    \/ UnpackParameters

SpecParameters == InitParameters /\ [][NextParameters]_vars

(***************************************************************************)
(* SpecCleanup: the loop of lines 651-656 on a list of paths of which any  *)
(* may be missing from the disk or be listed more than once.               *)
(***************************************************************************)
MaxTempFiles == 3

\* file paths of the kinds run lists as temporary, and a persistent one
CleanupPaths ==
    { File(BurstDir(scratch_path, 1), <<"rslc", "VV">>, "vrt"),
      File(BurstDir(scratch_path, 1), <<product_id>>, "tif"),
      File(scratch_path, <<product_id, "nlooks">>, "tif") }

PersistentPath == File(output_dir, <<product_id>>, "h5")

\* the sequences of at most n elements of S
RECURSIVE SeqsUpTo(_, _)
SeqsUpTo(S, n) ==
    IF n = 0 THEN {<<>>}
    ELSE LET shorter == SeqsUpTo(S, n - 1)
         IN  shorter \cup
             {Append(q, x) : q \in {t \in shorter : Len(t) = n - 1}, x \in S}

InitCleanup ==
    /\ cfg = BoundariesConfig
    /\ pc = "REMOVE_TEMPORARY_FILES"
    /\ burst_index = n_bursts
    /\ geogrid = NoGeogrid
    /\ mosaic_geogrid_dict = EmptyDict
    /\ applied = <<>>
    /\ input_file_list = <<>>
    /\ temp_files_list \in SeqsUpTo(CleanupPaths, MaxTempFiles)
    /\ output_file_list = <<PersistentPath>>
    /\ output_imagery_list = <<>>
    /\ output_metadata_dict = EmptyDict
    /\ radar_grid_file_dict = <<>>
    /\ geocode_calls = <<>>
    /\ mosaic_calls = <<>>
    /\ \E present \in SUBSET CleanupPaths :
          /\ disk = present \cup {PersistentPath}
          /\ created = disk
    /\ cfg_geogrid = NoGeogrid
    /\ correction_calls = <<>>
    /\ slc_args = NoArgs
    /\ corrected_image = NoImage
    /\ burst = NoBurst
    /\ valid_samples_sub_swath = <<>>
    /\ namespace = NoNamespace
    /\ radar_grid_calls = <<>>

NextCleanup == RemoveTemporaryFiles

SpecCleanup == InitCleanup /\ [][NextCleanup]_vars

(***************************************************************************)
(* Properties of the file bookkeeping of run(cfg), checked under Spec.     *)
(***************************************************************************)
Recorded(list, file) == file \in Range(list)

ContainerExtensions == {"h5", "nc"}

\* the rasters and VRTs the run has created (the metadata containers aside)
CreatedRasters == {f \in created : f[4] \notin ContainerExtensions}

\* the positions of list that hold a geocoded imagery raster of a burst
BurstImagery(list) ==
    {i \in DOMAIN list : list[i][2] # 0 /\ list[i][3] = <<product_id>>
                         /\ list[i][4] \notin ContainerExtensions}

\* the positions of list that hold the mosaic imagery raster
MosaicImageryFiles(list) ==
    {i \in DOMAIN list : list[i][2] = 0 /\ list[i][3] = <<product_id>>
                         /\ list[i][4] \notin ContainerExtensions}

IsContainerFormat == cfg.output_format \in {"HDF5", "NETCDF"}

\* C1: when run(cfg) has ended successfully, every raster or VRT file it
\* caused to be created is an element of temp_files_list or of
\* output_file_list.
C1_EveryCreatedFileRecorded ==
    pc = "done" =>
        \A f \in CreatedRasters :
            Recorded(temp_files_list, f) \/ Recorded(output_file_list, f)

\* the geocoded imagery, nlooks and RTC-ANF rasters of the bursts
PerBurstArtifacts ==
    {f \in CreatedRasters :
        /\ f[2] # 0
        /\ f[3] \in {<<product_id>>, <<product_id, "nlooks">>,
                     <<product_id, "rtc_anf">>}}

\* the rule of the specification for the artifacts of a burst
TemporaryByRule ==
    IsContainerFormat \/ (cfg.mosaic_bursts /\ cfg.n_bursts > 1)

\* C2: the geocoded imagery, nlooks and RTC-ANF rasters of every burst are
\* under the scratch path and in temp_files_list if and only if the output
\* format is HDF5 or NETCDF, or mosaicking is requested and the run has more
\* than one burst; otherwise they are under output_dir/<burst_id> and in
\* output_file_list.  Every geocoded burst has its artifacts classified so.
C2_BurstArtifactClassification ==
    /\ \A f \in PerBurstArtifacts :
          IF TemporaryByRule
          THEN /\ f[1] = "scratch_path"
               /\ Recorded(temp_files_list, f)
               /\ ~Recorded(output_file_list, f)
          ELSE /\ f[1] = "output_dir"
               /\ Recorded(output_file_list, f)
               /\ ~Recorded(temp_files_list, f)
    /\ \A i \in DOMAIN geocode_calls :
          LET call == geocode_calls[i]
              root == IF TemporaryByRule THEN "scratch_path" ELSE "output_dir"
          IN  /\ call.output_raster =
                    <<root, call.burst, <<product_id>>, extension>>
              /\ call.output_raster \in PerBurstArtifacts
              /\ cfg.save_nlooks =>
                    /\ call.out_geo_nlooks = <<
                         <<root, call.burst, <<product_id, "nlooks">>,
                           extension>> >>
                    /\ call.out_geo_nlooks[1] \in PerBurstArtifacts
              /\ cfg.save_rtc_anf =>
                    /\ call.out_geo_rtc = <<
                         <<root, call.burst, <<product_id, "rtc_anf">>,
                           extension>> >>
                    /\ call.out_geo_rtc[1] \in PerBurstArtifacts

\* C2 (witness): a single-burst mosaicking run to GTiff has ended with its
\* three burst artifacts persistent
C2_Witness ==
    /\ pc = "done"
    /\ cfg.mosaic_bursts /\ cfg.n_bursts = 1 /\ cfg.output_format = "GTiff"
    /\ cfg.save_nlooks /\ cfg.save_rtc_anf
    /\ Cardinality(PerBurstArtifacts) = 3
    /\ \A f \in PerBurstArtifacts : Recorded(output_file_list, f)

\* C3: when run(cfg) has ended successfully, no path of temp_files_list
\* exists on disk and every path of output_file_list exists on disk.
C3_TempRemovedOutputsExist ==
    pc = "done" =>
        /\ \A i \in DOMAIN temp_files_list : temp_files_list[i] \notin disk
        /\ \A i \in DOMAIN output_file_list : output_file_list[i] \in disk

\* C3 (witness): a run has ended that recorded temporary and persistent
\* files, and its temporary files were on disk before the cleanup
C3_Witness ==
    /\ pc = "done"
    /\ temp_files_list # <<>>
    /\ output_file_list # <<>>
    /\ Range(temp_files_list) \subseteq created

\* C4 (as claimed): a run with one burst and mosaicking disabled ends with
\* exactly one persistent geocoded imagery file and no temporary one, for
\* every output format.
C4_SingleBurstAnyFormat ==
    (pc = "done" /\ cfg.n_bursts = 1 /\ ~cfg.mosaic_bursts) =>
        /\ Cardinality(BurstImagery(output_file_list)) = 1
        /\ Cardinality(BurstImagery(temp_files_list)) = 0

\* C4 (amended): a run with one burst and mosaicking disabled ends, for the
\* output formats GTiff and ENVI, with exactly one persistent geocoded
\* imagery file, which exists, and no temporary one; for HDF5 and NETCDF
\* with exactly one temporary geocoded imagery file, which has been removed,
\* and no persistent one.
C4_SingleBurstByFormat ==
    (pc = "done" /\ cfg.n_bursts = 1 /\ ~cfg.mosaic_bursts) =>
        IF IsContainerFormat
        THEN /\ Cardinality(BurstImagery(output_file_list)) = 0
             /\ Cardinality(BurstImagery(temp_files_list)) = 1
             /\ \A i \in BurstImagery(temp_files_list) :
                    temp_files_list[i] \in created \ disk
        ELSE /\ Cardinality(BurstImagery(output_file_list)) = 1
             /\ Cardinality(BurstImagery(temp_files_list)) = 0
             /\ \A i \in BurstImagery(output_file_list) :
                    output_file_list[i] \in disk

\* C4 (witness): a single-burst run without mosaicking has ended, to a
\* container format, with its imagery raster recorded
C4_Witness ==
    /\ pc = "done"
    /\ cfg.n_bursts = 1 /\ ~cfg.mosaic_bursts
    /\ cfg.output_format = "NETCDF"
    /\ BurstImagery(temp_files_list) # {}

\* C5 (as claimed): a mosaicking run over n > 1 bursts ends with exactly
\* one persistent mosaic imagery file and exactly n temporary per-burst
\* imagery files, all of them removed.
C5_MosaicRunAnyFormat ==
    (pc = "done" /\ cfg.mosaic_bursts /\ cfg.n_bursts > 1) =>
        /\ Cardinality(MosaicImageryFiles(output_file_list)) = 1
        /\ Cardinality(BurstImagery(temp_files_list)) = cfg.n_bursts
        /\ \A i \in BurstImagery(temp_files_list) :
               temp_files_list[i] \in created \ disk

\* C5 (amended): a mosaicking run over n > 1 bursts that ends successfully
\* has exactly n temporary per-burst imagery files, all of them removed,
\* no persistent per-burst imagery file, and exactly one mosaic imagery
\* file: persistent and on disk for GTiff and ENVI, temporary and removed
\* for HDF5 and NETCDF.
C5_MosaicRunByFormat ==
    (pc = "done" /\ cfg.mosaic_bursts /\ cfg.n_bursts > 1) =>
        /\ Cardinality(BurstImagery(temp_files_list)) = cfg.n_bursts
        /\ \A i \in BurstImagery(temp_files_list) :
               temp_files_list[i] \in created \ disk
        /\ BurstImagery(output_file_list) = {}
        /\ IF IsContainerFormat
           THEN /\ Cardinality(MosaicImageryFiles(temp_files_list)) = 1
                /\ MosaicImageryFiles(output_file_list) = {}
                /\ \A i \in MosaicImageryFiles(temp_files_list) :
                       temp_files_list[i] \in created \ disk
           ELSE /\ Cardinality(MosaicImageryFiles(output_file_list)) = 1
                /\ MosaicImageryFiles(temp_files_list) = {}
                /\ \A i \in MosaicImageryFiles(output_file_list) :
                       output_file_list[i] \in disk

\* C5 (witness): a mosaicking run over three bursts to GTiff has ended
C5_Witness ==
    /\ pc = "done"
    /\ cfg.mosaic_bursts /\ cfg.n_bursts = 3 /\ cfg.output_format = "GTiff"
    /\ Len(mosaic_calls) >= 1
    /\ Len(mosaic_calls[1].inputs) = 3

(***************************************************************************)
(* Properties of _update_mosaic_boundaries, checked under SpecBoundaries.  *)
(***************************************************************************)
\* the dict holds dx, dy and epsg and the geogrid differs in one of them
Disagrees(d, g) ==
    /\ {"dx", "dy", "epsg"} \subseteq DOMAIN d
    /\ \/ d["dx"] # g.spacing_x
       \/ d["dy"] # g.spacing_y
       \/ d["epsg"] # g.epsg

Last(s) == s[Len(s)]

\* C6: a call of _update_mosaic_boundaries on a dict that holds dx, dy and
\* epsg with a geogrid that differs in one of them fails; as long as no call
\* has failed, no geogrid applied so far disagrees with the dict.
C6_MismatchFails ==
    /\ pc = "error" =>
          applied # <<>> /\ Disagrees(mosaic_geogrid_dict, Last(applied))
    /\ pc # "error" =>
          \A i \in DOMAIN applied : ~Disagrees(mosaic_geogrid_dict, applied[i])

\* C6 (witness): the second call has failed on a geogrid whose EPSG code
\* alone differs from the recorded one
C6_Witness ==
    /\ pc = "error"
    /\ Len(applied) = 2
    /\ mosaic_geogrid_dict["epsg"] # applied[2].epsg
    /\ mosaic_geogrid_dict["dx"] = applied[2].spacing_x
    /\ mosaic_geogrid_dict["dy"] = applied[2].spacing_y

\* C7: a call of _update_mosaic_boundaries that fails on a mismatch leaves
\* the dict as it was before the call.
C7_FailedCallLeavesStateUnmodified ==
    [][(pc = "BOUNDARIES" /\ pc' = "error")
          => mosaic_geogrid_dict' = mosaic_geogrid_dict]_vars

\* the dict after _update_mosaic_boundaries has been applied to the
\* geogrids of seq in order, starting from d
RECURSIVE ApplyInOrder(_, _)
ApplyInOrder(d, seq) ==
    IF seq = <<>> THEN d
    ELSE ApplyInOrder(_update_mosaic_boundaries(d, Head(seq)).dict, Tail(seq))

SameGrid(g1, g2) ==
    /\ g1.spacing_x = g2.spacing_x
    /\ g1.spacing_y = g2.spacing_y
    /\ g1.epsg = g2.epsg

\* C8: from every accumulator state (empty or populated) and for every two
\* geogrids of equal spacing and EPSG code that agree with it, the two
\* orders of application leave the same dict; and the dict reached is the
\* one every permutation of the geogrids applied so far leads to.
C8_OrderIndependent ==
    pc # "error" =>
        /\ \A g1, g2 \in BoundaryGeogrids :
              (SameGrid(g1, g2) /\ ~Disagrees(mosaic_geogrid_dict, g1)) =>
                  ApplyInOrder(mosaic_geogrid_dict, <<g1, g2>>)
                      = ApplyInOrder(mosaic_geogrid_dict, <<g2, g1>>)
        /\ \A p \in Permutations(DOMAIN applied) :
              ApplyInOrder(EmptyDict, [i \in DOMAIN applied |-> applied[p[i]]])
                  = mosaic_geogrid_dict

\* C8 (witness): three geogrids of different extents have been applied
C8_Witness ==
    /\ pc # "error"
    /\ Len(applied) = 3
    /\ applied[2].start_x < applied[1].start_x
    /\ applied[3].start_x > applied[1].start_x
    /\ applied[3].start_y < applied[1].start_y
    /\ mosaic_geogrid_dict["x0"] = applied[2].start_x
    /\ mosaic_geogrid_dict["y0"] = applied[2].start_y

SetMin(S) == CHOOSE x \in S : \A y \in S : x <= y

SetMax(S) == CHOOSE x \in S : \A y \in S : x >= y

\* C9: after the calls on a non-empty sequence of consistent geogrids,
\* x0 is the minimum start_x, xf the maximum of start_x + spacing_x * width,
\* y0 the maximum start_y and yf the minimum of start_y + spacing_y * length;
\* dx = 5, dy = -5, starts (0, 100) and (40, 80), width = length = 10 give
\* x0 = 0, xf = 90, y0 = 100, yf = 30.
C9_UnionOfExtents ==
    (pc # "error" /\ applied # <<>>) =>
        /\ mosaic_geogrid_dict["x0"] =
               SetMin({g.start_x : g \in Range(applied)})
        /\ mosaic_geogrid_dict["xf"] =
               SetMax({g.start_x + g.spacing_x * g.width : g \in Range(applied)})
        /\ mosaic_geogrid_dict["y0"] =
               SetMax({g.start_y : g \in Range(applied)})
        /\ mosaic_geogrid_dict["yf"] =
               SetMin({g.start_y + g.spacing_y * g.length : g \in Range(applied)})
        /\ applied = << Geogrid(0, 100, 5, -5, 10, 10, 32610),
                        Geogrid(40, 80, 5, -5, 10, 10, 32610) >> =>
               /\ mosaic_geogrid_dict["x0"] = 0
               /\ mosaic_geogrid_dict["xf"] = 90
               /\ mosaic_geogrid_dict["y0"] = 100
               /\ mosaic_geogrid_dict["yf"] = 30

\* C9 (witness): the two geogrids of the example have been applied
C9_Witness ==
    /\ pc # "error"
    /\ applied = << Geogrid(0, 100, 5, -5, 10, 10, 32610),
                    Geogrid(40, 80, 5, -5, 10, 10, 32610) >>
    /\ mosaic_geogrid_dict["xf"] = 90

(***************************************************************************)
(* The accumulator across the burst loop, checked under Spec.              *)
(***************************************************************************)
\* C10: every step of the run that does not fail only widens the bounding
\* box (x0 and yf do not grow, xf and y0 do not shrink), and dx, dy and
\* epsg, once set, are changed by no step of the run.
C10_OnlyWidens ==
    [][/\ ("x0" \in DOMAIN mosaic_geogrid_dict /\ pc' # "error") =>
            /\ mosaic_geogrid_dict'["x0"] <= mosaic_geogrid_dict["x0"]
            /\ mosaic_geogrid_dict'["xf"] >= mosaic_geogrid_dict["xf"]
            /\ mosaic_geogrid_dict'["y0"] >= mosaic_geogrid_dict["y0"]
            /\ mosaic_geogrid_dict'["yf"] <= mosaic_geogrid_dict["yf"]
       /\ \A k \in {"dx", "dy", "epsg"} :
            k \in DOMAIN mosaic_geogrid_dict =>
               /\ k \in DOMAIN mosaic_geogrid_dict'
               /\ mosaic_geogrid_dict'[k] = mosaic_geogrid_dict[k]
      ]_vars

\* C10 (witness): the second burst has widened the box of the first one
C10_Witness ==
    /\ pc = "LOAD_AND_CORRECT_PER_POLARIZATION"
    /\ burst_index = 1
    /\ mosaic_geogrid_dict["x0"] < geogrid.start_x
    /\ mosaic_geogrid_dict["yf"] = geogrid.start_y
                                     + geogrid.spacing_y * geogrid.length
    /\ mosaic_geogrid_dict["y0"] > geogrid.start_y

(***************************************************************************)
(* The mosaic stage.                                                       *)
(***************************************************************************)
\* the geogrid that the accumulated bounds x0, xf, y0, yf, dx, dy, epsg describe
MosaicGeogridOf(d) ==
    Geogrid(d["x0"], d["y0"], d["dx"], d["dy"],
            (d["xf"] - d["x0"]) \div d["dx"],
            (d["yf"] - d["y0"]) \div d["dy"], d["epsg"])

\* C11: when mosaicking is enabled, the output geogrid of every
\* weighted_mosaic call is the geogrid materialized from the bounds that
\* _update_mosaic_boundaries accumulated over all bursts
C11_MosaicUsesAccumulatedGeogrid ==
    \A i \in DOMAIN mosaic_calls :
        mosaic_calls[i].geogrid = MosaicGeogridOf(mosaic_geogrid_dict)

\* the number-of-looks rasters of the bursts, in burst order
PerBurstNlooks ==
    [b \in 1..n_bursts |->
        File(BurstDir(IF flag_bursts_files_are_temporary
                      THEN scratch_path ELSE output_dir, b),
             <<product_id, "nlooks">>, extension)]

\* the weighted_mosaic calls that wrote `output`
CallsWriting(output) ==
    {i \in DOMAIN mosaic_calls : mosaic_calls[i].output = output}

MosaicStageOver ==
    /\ flag_mosaic
    /\ pc \in {"MOSAIC_METADATA_CONTAINER", "REMOVE_TEMPORARY_FILES", "done"}

\* C12: in the mosaic stage the imagery and every layer of
\* output_metadata_dict (nlooks, RTC-ANF) are each combined by exactly one
\* weighted_mosaic call, and all the calls are given the same list of
\* per-burst number-of-looks rasters as weights and the same geogrid
C12_OneCallPerLayerSameWeights ==
    /\ \A i \in DOMAIN mosaic_calls :
          /\ mosaic_calls[i].weights = PerBurstNlooks
          /\ mosaic_calls[i].geogrid = mosaic_calls[1].geogrid
    /\ MosaicStageOver =>
          /\ Cardinality(CallsWriting(geo_filename)) = 1
          /\ \A i \in CallsWriting(geo_filename) :
                mosaic_calls[i].inputs = output_imagery_list
          /\ \A key \in DOMAIN output_metadata_dict :
                /\ Cardinality(CallsWriting(output_metadata_dict[key].file)) = 1
                /\ \A i \in CallsWriting(output_metadata_dict[key].file) :
                      mosaic_calls[i].inputs = output_metadata_dict[key].inputs
          /\ Len(mosaic_calls) = 1 + Cardinality(DOMAIN output_metadata_dict)

C12_Witness ==
    /\ pc = "done"
    /\ flag_mosaic
    /\ n_bursts = 2
    /\ Len(mosaic_calls) = 3
    /\ mosaic_calls[3].weights = PerBurstNlooks
    /\ mosaic_calls[3].inputs # PerBurstNlooks

(***************************************************************************)
(* The geocoder's input and exponent.                                      *)
(***************************************************************************)
\* file is a real-valued raster written by apply_slc_corrections
IsCorrectedPowerFile(file) ==
    \E i \in DOMAIN correction_calls :
        /\ correction_calls[i].path_slc_out = file
        /\ ~correction_calls[i].flag_output_complex
        /\ correction_calls[i].dtype = "Float32"

\* file is the VRT of a raw SLC, written by slc_to_vrt_file only
IsRawSlcVrt(file) ==
    /\ file[4] = "vrt"
    /\ Len(file[3]) = 2
    /\ file \in created
    /\ ~IsCorrectedPowerFile(file)

\* C13: the exponent of every geocode call is 1 if the thermal noise or the
\* absolute radiometric correction is enabled and 2 otherwise; it is 1
\* exactly when the geocoder's input is the corrected real-valued power
\* raster and 2 exactly when it is the raw complex SLC VRT
C13_ExponentMatchesInput ==
    \A i \in DOMAIN geocode_calls :
        LET call == geocode_calls[i]
        IN  /\ call.exponent =
                  IF \/ cfg.apply_thermal_noise_correction
                     \/ cfg.apply_absolute_radiometric_correction
                  THEN 1 ELSE 2
            /\ call.exponent \in {1, 2}
            /\ call.bands # <<>>
            /\ (call.exponent = 1) <=>
                  \A j \in DOMAIN call.bands : IsCorrectedPowerFile(call.bands[j])
            /\ (call.exponent = 2) <=>
                  \A j \in DOMAIN call.bands : IsRawSlcVrt(call.bands[j])

C13_Witness ==
    /\ Len(geocode_calls) = 2
    /\ geocode_calls[2].exponent = 1
    /\ Len(geocode_calls[2].bands) = 2
    /\ ~cfg.apply_thermal_noise_correction
    /\ IsCorrectedPowerFile(geocode_calls[2].bands[2])

\* C14: for every burst and polarization the corrected power handed to the
\* geocoder is divided by beta_naught^2 if the run configuration asks for
\* the absolute radiometric correction and is not divided by it otherwise
C14_AbsRadCorrectionAsConfigured ==
    \A i \in DOMAIN correction_calls :
        correction_calls[i].flag_apply_abs_rad_correction =
            cfg.apply_absolute_radiometric_correction

(***************************************************************************)
(* The valid-sample table, checked under SpecMask.                         *)
(***************************************************************************)
MaskBuilt == pc = "INVOKE_GEOCODE" /\ valid_samples_sub_swath # <<>>

\* C15: for 0 <= first_valid_line <= last_valid_line <= length the table
\* has one row per radar line; the rows of the lines in
\* [first_valid_line, last_valid_line) are
\* [first_valid_sample, min(last_valid_sample, width - 1) + 1) and every
\* other row is [0, 0)
C15_ValidSampleTable ==
    (MaskBuilt /\ burst.first_valid_line <= burst.last_valid_line) =>
        /\ Len(valid_samples_sub_swath) = burst.length
        /\ \A line \in 0..(burst.length - 1) :
              valid_samples_sub_swath[line + 1] =
                 IF /\ burst.first_valid_line <= line
                    /\ line < burst.last_valid_line
                 THEN <<burst.first_valid_sample,
                        Min(burst.last_valid_sample, burst.width - 1) + 1>>
                 ELSE <<0, 0>>

Zero == Finite(0, 1)

IsZero(f) == f.kind = "finite" /\ f.num = 0

\* C17: with flag_output_complex=True the sample written for an input of
\* amplitude 0 is exactly 0+0i, neither NaN nor Inf, whatever the thermal
\* noise LUT value (zero, positive or negative) and the two correction flags
C17_ZeroAmplitudeStaysZero ==
    (/\ pc = "CORRECTED"
     /\ slc_args.flag_output_complex
     /\ Abs2(slc_args.arr_slc_from) = 0) =>
        /\ Len(corrected_image) = 2
        /\ IsZero(corrected_image[1])
        /\ IsZero(corrected_image[2])

\* C18: with the thermal noise correction enabled the corrected power is
\* never negative, and is exactly 0 when the thermal noise LUT value is
\* greater than or equal to |slc|^2, with or without the scaling by
\* 1/beta_naught^2
C18_CorrectedPowerClipped ==
    (/\ pc = "CORRECTED"
     /\ slc_args.flag_thermal_correction
     /\ ~slc_args.flag_output_complex) =>
        /\ Len(corrected_image) = 1
        /\ corrected_image[1].kind = "finite"
        /\ corrected_image[1].num >= 0
        /\ corrected_image[1].den > 0
        /\ (slc_args.thermal_noise_lut >= Abs2(slc_args.arr_slc_from)) =>
              IsZero(corrected_image[1])

C18_Witness ==
    /\ pc = "CORRECTED"
    /\ slc_args.flag_thermal_correction
    /\ ~slc_args.flag_output_complex
    /\ slc_args.flag_apply_abs_rad_correction
    /\ slc_args.beta_naught = 2
    /\ slc_args.thermal_noise_lut > Abs2(slc_args.arr_slc_from)
    /\ Abs2(slc_args.arr_slc_from) > 0
    /\ IsZero(corrected_image[1])

(***************************************************************************)
(* Failures in the burst loop, checked under Spec.                         *)
(***************************************************************************)
\* C19: if the processing of a burst fails (unsupported element type, a
\* raster that cannot be created, a geocode call that raises), the run
\* ends there: nothing is executed after the error, the iteration of a
\* burst only ends once that burst has been geocoded (no burst is
\* skipped), and the mosaic stage and the end of the run are reached only
\* with every burst geocoded
C19_FailureAbortsRun ==
    [][/\ pc # "error"
       /\ burst_index' > burst_index =>
             /\ Len(geocode_calls) = burst_index + 1
             /\ geocode_calls[burst_index + 1].burst = burst_id
       /\ Len(mosaic_calls') > Len(mosaic_calls) =>
             Len(geocode_calls) = n_bursts
       /\ pc' = "done" => Len(geocode_calls) = n_bursts]_vars

C19_Witness ==
    /\ pc = "error"
    /\ n_bursts = 3
    /\ burst_index = 1
    /\ Len(geocode_calls) = 1
    /\ mosaic_calls = <<>>
    /\ input_file_list # <<>>
    /\ input_file_list[1][2] = 2
    /\ "x0" \in DOMAIN mosaic_geogrid_dict

(***************************************************************************)
(* The enumerated run parameters, checked under SpecParameters.            *)
(***************************************************************************)
\* C20: an out-of-enumeration value of the memory mode, the DEM
\* interpolation method, the RTC output type, the input terrain
\* radiometry, the geocoding algorithm type or the RTC algorithm type is
\* rejected before the first burst is processed: the burst loop is only
\* entered with every one of them in its enumeration
C20_OutOfEnumerationRejected ==
    [][/\ (pc = "LOAD_PARAMETERS" /\ pc' = "RUN") =>
             /\ namespace.memory_mode # Unrecognized
             /\ namespace.dem_interpolation_method # Unrecognized
             /\ namespace.output_type # Unrecognized
             /\ namespace.input_terrain_radiometry # Unrecognized
       /\ (pc' = "SNAP_GEOGRID") =>
             /\ namespace.geocoding_algorithm_type # Unrecognized
             /\ namespace.rtc_algorithm_type # Unrecognized]_vars
(***************************************************************************)
(* The schedule of the run: auxiliary layers, cleanup, stage order.        *)
(***************************************************************************)
\* the stages that follow the mosaic's auxiliary layers; the only failure
\* after the loop is MosaicImagery's
MosaicAuxLayersOver ==
    \/ pc \in {"MOSAIC_IMAGERY", "MOSAIC_OTHER_BANDS",
               "MOSAIC_METADATA_CONTAINER", "REMOVE_TEMPORARY_FILES", "done"}
    \/ pc = "error" /\ burst_index = n_bursts

\* how many bursts have been through the per-burst auxiliary layer stage
BurstsPastAuxLayers ==
    burst_index + (IF pc = "EMIT_PER_BURST_METADATA_CONTAINER" THEN 1 ELSE 0)

\* when and how often get_radar_grid is called
RadarGridSchedule ==
    /\ ~flag_call_radar_grid => radar_grid_calls = <<>>
    /\ flag_call_radar_grid /\ ~flag_mosaic =>
          /\ Len(radar_grid_calls) = BurstsPastAuxLayers
          /\ \A i \in DOMAIN radar_grid_calls :
                /\ radar_grid_calls[i].level = "burst"
                /\ radar_grid_calls[i].burst = i - 1
          /\ pc = "EMIT_PER_BURST_METADATA_CONTAINER" =>
                radar_grid_calls[Len(radar_grid_calls)].geogrid = geogrid
    /\ flag_call_radar_grid /\ flag_mosaic =>
          /\ Len(radar_grid_calls) = (IF MosaicAuxLayersOver THEN 1 ELSE 0)
          /\ \A i \in DOMAIN radar_grid_calls :
                /\ radar_grid_calls[i].level = "mosaic"
                /\ radar_grid_calls[i].burst = n_bursts

ReadersOfTemporariesOver ==
    /\ burst_index = n_bursts
    /\ Len(geocode_calls) = n_bursts
    /\ flag_mosaic =>
          /\ flag_call_radar_grid => Len(radar_grid_calls) = 1
          /\ Len(mosaic_calls) = 1 + Cardinality(DOMAIN output_metadata_dict)
          /\ flag_hdf5 => output_hdf5_file \in disk

\* C22: the cleanup runs once in a run that succeeds, as its last step: a
\* file leaves the disk only in that step, which is taken when every burst
\* is geocoded and, for a mosaic, after the mosaic's auxiliary layers, all
\* weighted_mosaic calls and the save of the metadata container; the run
\* ends with that step and nothing is removed afterwards.
C22_CleanupOnceAfterAllReaders ==
    [][ /\ ~(disk \subseteq disk') =>
              pc = "REMOVE_TEMPORARY_FILES" /\ pc' = "done"
        /\ pc' = "done" /\ pc # "done" =>
              /\ pc = "REMOVE_TEMPORARY_FILES"
              /\ ReadersOfTemporariesOver
              /\ disk' = disk \ Range(temp_files_list)
        /\ pc = "done" => UNCHANGED vars ]_vars

C22_Witness ==
    /\ pc = "done"
    /\ flag_mosaic /\ flag_hdf5 /\ flag_call_radar_grid
    /\ n_bursts > 1
    /\ Len(mosaic_calls) > 1
    /\ Range(temp_files_list) # {}
    /\ Range(temp_files_list) \cap disk = {}
    /\ Range(temp_files_list) \subseteq created

\* C23: in the cleanup a listed path that is not on the disk (never
\* created, removed before, or listed a second time) is skipped and raises
\* nothing: the loop ends normally, every listed path that was on the disk
\* is removed whatever precedes it in the list, and nothing else is.
C23_MissingPathsSkipped ==
    [][ pc = "REMOVE_TEMPORARY_FILES" =>
          /\ pc' = "done"
          /\ disk' = disk \ Range(temp_files_list) ]_vars

\* a missing path was followed in the list by one that existed, and the
\* list named a path twice
C23_Witness ==
    /\ pc = "done"
    /\ \E i, j \in DOMAIN temp_files_list :
          /\ i < j
          /\ temp_files_list[i] \notin created
          /\ temp_files_list[j] \in created \ disk
    /\ Len(temp_files_list) > Cardinality(Range(temp_files_list))
    /\ PersistentPath \in disk

\* the stages of one iteration of the burst loop, in the order claimed
BurstStages ==
    << "SNAP_GEOGRID", "UPDATE_MOSAIC_BOUNDS",
       "LOAD_AND_CORRECT_PER_POLARIZATION", "STACK_BANDS",
       "ALLOCATE_OUTPUT_RASTERS", "BUILD_VALID_MASK", "INVOKE_GEOCODE",
       "CLASSIFY_AND_RECORD_OUTPUTS", "EMIT_PER_BURST_AUX_LAYERS",
       "EMIT_PER_BURST_METADATA_CONTAINER" >>

LastBurstStage == BurstStages[Len(BurstStages)]

\* the bounds, spacings and EPSG code the accumulator holds
BoundsOf(d) ==
    [key \in DOMAIN d \cap {"x0", "xf", "y0", "yf", "dx", "dy", "epsg"} |->
        d[key]]

\* the accumulated bounds contain the geogrid g
Covers(d, g) ==
    /\ {"x0", "xf", "y0", "yf"} \subseteq DOMAIN d
    /\ d["x0"] <= g.start_x
    /\ d["xf"] >= g.start_x + g.width * g.spacing_x
    /\ d["y0"] >= g.start_y
    /\ d["yf"] <= g.start_y + g.length * g.spacing_y

\* C24: the stages of a burst run in the order snap, update bounds,
\* load/correct, stack, allocate, valid-sample mask, geocode, record
\* outputs, auxiliary layers, metadata container; the accumulator is
\* updated in one step per burst, before the burst's geocode call; and the
\* next burst starts only when the last stage of the burst before it is
\* over.
C24_BurstStagesInOrder ==
    [][ /\ \A i \in DOMAIN BurstStages :
              pc = BurstStages[i] /\ pc' # raise_exception /\ pc' # pc =>
                 IF i < Len(BurstStages) THEN pc' = BurstStages[i + 1]
                 ELSE /\ burst_index' = burst_index + 1
                      /\ pc' = BurstStages[1] <=> burst_index' < n_bursts
                      /\ pc' \notin Range(BurstStages) \ {BurstStages[1]}
        /\ burst_index' # burst_index => pc = LastBurstStage
        /\ pc' = BurstStages[1] /\ pc # pc' => pc = LastBurstStage
        /\ BoundsOf(mosaic_geogrid_dict') # BoundsOf(mosaic_geogrid_dict) =>
              pc = "UPDATE_MOSAIC_BOUNDS"
        /\ pc = "INVOKE_GEOCODE" => Covers(mosaic_geogrid_dict, geogrid) ]_vars

\* the second burst is about to be geocoded, the first one has been
C24_Witness ==
    /\ pc = "INVOKE_GEOCODE"
    /\ burst_index = 1
    /\ Len(geocode_calls) = 1
    /\ geocode_calls[1].sub_swaths = build_valid_samples_sub_swath
    /\ valid_samples_sub_swath = build_valid_samples_sub_swath
    /\ Covers(mosaic_geogrid_dict, geogrid)
    /\ BoundsOf(mosaic_geogrid_dict) # BoundsOf(EmptyDict)

\* C25: a mosaic run whose bursts are all geocoded goes through the mosaic
\* combination to the cleanup whatever save_nlooks and save_rtc_anf are:
\* the stages after the loop do not fail, in particular not with
\* save_nlooks disabled.
C25_MosaicStageNeverFails ==
    flag_mosaic /\ burst_index = n_bursts => pc # raise_exception

(***************************************************************************)
(* The lists of the run.                                                   *)
(***************************************************************************)
\* the iterations of the burst loop whose outputs have been recorded
BurstsRecorded ==
    burst_index +
    (IF pc \in {"EMIT_PER_BURST_AUX_LAYERS",
                "EMIT_PER_BURST_METADATA_CONTAINER"} THEN 1 ELSE 0)

\* C26: after k iterations output_imagery_list and the per-burst list of
\* every layer of output_metadata_dict hold k entries, and the i-th entry
\* of each is the raster that the geocode call of the i-th burst wrote (the
\* imagery, the number of looks, the RTC ANF), in that burst's directory.
C26_ListsAlignedWithBursts ==
    /\ Len(output_imagery_list) = BurstsRecorded
    /\ \A i \in DOMAIN output_imagery_list :
          /\ geocode_calls[i].burst = i
          /\ output_imagery_list[i] = geocode_calls[i].output_raster
          /\ output_imagery_list[i][2] = i
    /\ \A key \in DOMAIN output_metadata_dict :
          /\ Len(output_metadata_dict[key].inputs) = BurstsRecorded
          /\ \A i \in DOMAIN output_metadata_dict[key].inputs :
                /\ output_metadata_dict[key].inputs[i][2] = i
                /\ <<output_metadata_dict[key].inputs[i]>> =
                      (IF key = "nlooks" THEN geocode_calls[i].out_geo_nlooks
                       ELSE geocode_calls[i].out_geo_rtc)

C26_Witness ==
    /\ pc = "SNAP_GEOGRID"
    /\ burst_index = 2
    /\ Len(output_imagery_list) = 2
    /\ DOMAIN output_metadata_dict = {"nlooks", "rtc"}
    /\ Len(output_metadata_dict["rtc"].inputs) = 2
    /\ output_imagery_list[1] # output_imagery_list[2]

\* a path without its root directory: burst directory, stem, extension
Rootless(path) == <<path[2], path[3], path[4]>>

\* C27: temp_files_list and output_file_list never have a path in common,
\* whatever the output format, the mosaic flag and the number of bursts;
\* the paths differ in burst directory, name or extension, so this does not
\* depend on scratch_path and output_dir being different directories.
C27_TempAndOutputDisjoint ==
    \A i \in DOMAIN temp_files_list, j \in DOMAIN output_file_list :
        Rootless(temp_files_list[i]) # Rootless(output_file_list[j])

\* a mosaic of a single burst, whose burst files are persistent
C27_Witness ==
    /\ pc = "done"
    /\ flag_mosaic /\ n_bursts = 1 /\ ~flag_hdf5
    /\ ~flag_bursts_files_are_temporary
    /\ geo_filename \in Range(output_file_list)
    /\ Cardinality(Range(output_file_list)) > 2
    /\ Range(temp_files_list) # {}

\* C28: the orbit, wavelength and look side of the accumulator are those of
\* the first burst and are never overwritten, and every call that generates
\* auxiliary layers is given the orbit, wavelength and look side of the
\* accumulator, not those of the burst processed last.
C28_RadarGridUsesAccumulatedOrbit ==
    /\ \A key \in {"orbit", "wavelength", "lookside"} \cap
                    DOMAIN mosaic_geogrid_dict :
          mosaic_geogrid_dict[key] = 1
    /\ \A i \in DOMAIN radar_grid_calls :
          /\ radar_grid_calls[i].orbit = mosaic_geogrid_dict["orbit"]
          /\ radar_grid_calls[i].wavelength = mosaic_geogrid_dict["wavelength"]
          /\ radar_grid_calls[i].lookside = mosaic_geogrid_dict["lookside"]

\* the part of C28 that the code keeps: the three keys are set once, and
\* wavelength and look side of every call are the accumulator's
AccumulatedOrbitSetOnce ==
    /\ \A key \in {"orbit", "wavelength", "lookside"} \cap
                    DOMAIN mosaic_geogrid_dict :
          mosaic_geogrid_dict[key] = 1
    /\ \A i \in DOMAIN radar_grid_calls :
          /\ radar_grid_calls[i].wavelength = mosaic_geogrid_dict["wavelength"]
          /\ radar_grid_calls[i].lookside = mosaic_geogrid_dict["lookside"]

====
